---- MODULE Spec2Model ----
(***************************************************************************)
(* Model of src/src/utils.py, simulate_latency: the realized profit of a   *)
(* set of arbitrage hits when execution happens latency_microseconds after *)
(* detection, looked up in the consolidated tape with a backward as-of     *)
(* join.                                                                   *)
(*                                                                         *)
(* Data representation                                                     *)
(*   cell        <<v>> for the number v, <<>> for a missing value (NaN)    *)
(*   column name the name split at '_' : 'price_bid_0_A' is                *)
(*               <<"price","bid","0","A">>; tokens are atomic              *)
(*   frame       [columns |-> Seq(name), rows |-> Seq(Seq(cell))], every   *)
(*               row aligned with columns (a DataFrame with a default      *)
(*               index)                                                    *)
(*   tape        [index |-> Seq(Int), columns, rows]: a DataFrame whose    *)
(*               index is the time key, named 'epoch'                      *)
(***************************************************************************)
EXTENDS Integers, Sequences, FiniteSets, TLC

VARIABLES
    df_arbitrage_hits,      \* the caller's opportunities table object
    df_consolidated_tape,   \* the caller's quote table object
    sort_kind,              \* how this build's quicksort orders equal keys
    hits_orig,              \* history: the opportunities table as first passed
    latency_microseconds,   \* argument of the last call (0 before any)
    outcome,                \* what the last call returned or raised
    df_realized,            \* the last call's local df_realized
    swept                   \* history: the latencies already tried on these tables

vars == <<df_arbitrage_hits, df_consolidated_tape, sort_kind, hits_orig,
          latency_microseconds, outcome, df_realized, swept>>

----------------------------------------------------------------------------
(* Cells and NaN arithmetic *)

NaN == <<>>
Num(v) == <<v>>
IsNaN(c) == c = <<>>

\* the sequence <<f[1], ..., f[n]>> of a function f on 1..n
AsSeq(f) == f \o <<>>

\* a - b on two cells; NaN if either is missing
Sub(a, b) == IF IsNaN(a) \/ IsNaN(b) THEN NaN ELSE Num(a[1] - b[1])

\* a + b on two cells; NaN if either is missing
Add(a, b) == IF IsNaN(a) \/ IsNaN(b) THEN NaN ELSE Num(a[1] + b[1])

\* a * b on two cells; NaN if either is missing
Mul(a, b) == IF IsNaN(a) \/ IsNaN(b) THEN NaN ELSE Num(a[1] * b[1])

\* Series.clip(lower=lo) on one cell: NaN stays NaN
ClipMutNoFloor(c, lo) == c
Clip(c, lo) == IF IsNaN(c) THEN NaN ELSE IF c[1] < lo THEN Num(lo) ELSE c

\* DataFrame.max(axis=1) on one row: reduces the cells column by column,
\* skipping NaN (skipna=True); NaN when no cell has a value
RowMaxMutFirst(cells) == IF cells = <<>> THEN NaN ELSE Head(cells)
RECURSIVE RowMax(_)
RowMax(cells) ==
    IF cells = <<>> THEN NaN
    ELSE LET x == Head(cells)
             rest == RowMax(Tail(cells))
         IN  IF IsNaN(x) THEN rest
             ELSE IF IsNaN(rest) THEN x
             ELSE IF x[1] >= rest[1] THEN x ELSE rest

\* DataFrame.min(axis=1) on one row, same conventions
RECURSIVE RowMin(_)
RowMin(cells) ==
    IF cells = <<>> THEN NaN
    ELSE LET x == Head(cells)
             rest == RowMin(Tail(cells))
         IN  IF IsNaN(x) THEN rest
             ELSE IF IsNaN(rest) THEN x
             ELSE IF x[1] <= rest[1] THEN x ELSE rest

\* Series.sum(): NaN cells are skipped, the empty sum is 0
RECURSIVE SumSkipNa(_)
SumSkipNa(cells) ==
    IF cells = <<>> THEN 0
    ELSE (IF IsNaN(Head(cells)) THEN 0 ELSE Head(cells)[1]) + SumSkipNa(Tail(cells))

----------------------------------------------------------------------------
(* Column names *)

EPOCH == <<"epoch">>
TRADED_QTY == <<"Traded", "Qty">>
EXECUTION_EPOCH == <<"execution", "epoch">>
PRICE_BID_0 == <<"price", "bid", "0">>
PRICE_ASK_0 == <<"price", "ask", "0">>
GLOBAL_MAX_BID_REAL == <<"Global", "Max", "Bid", "Real">>
GLOBAL_MIN_ASK_REAL == <<"Global", "Min", "Ask", "Real">>
REALIZED_PROFIT_UNIT == <<"Realized", "Profit", "Unit">>
REALIZED_PROFIT == <<"Realized", "Profit">>

\* pattern in col, for a pattern made of whole tokens
Contains(pattern, col) ==
    \E i \in 0..(Len(col) - Len(pattern)) :
        SubSeq(col, i + 1, i + Len(pattern)) = pattern

\* 'vol_' in col: a token vol followed by an underscore, i.e. by another token
ContainsVol(col) == \E i \in 1..(Len(col) - 1) : col[i] = "vol"

\* [col for col in columns if pattern in col], in column order
RECURSIVE ColsMatching(_, _)
ColsMatching(columns, pattern) ==
    IF columns = <<>> THEN <<>>
    ELSE (IF Contains(pattern, Head(columns)) THEN <<Head(columns)>> ELSE <<>>)
         \o ColsMatching(Tail(columns), pattern)

RECURSIVE ColsVol(_)
ColsVol(columns) ==
    IF columns = <<>> THEN <<>>
    ELSE (IF ContainsVol(Head(columns)) THEN <<Head(columns)>> ELSE <<>>)
         \o ColsVol(Tail(columns))

----------------------------------------------------------------------------
(* Frames *)

EmptyFrame == [columns |-> <<>>, rows |-> <<>>]

\* DataFrame.empty: some axis has length 0
Empty(df) == Len(df.rows) = 0 \/ Len(df.columns) = 0

HasCol(df, name) == \E j \in DOMAIN df.columns : df.columns[j] = name

\* position of the (first) column called name
ColPos(df, name) ==
    CHOOSE j \in DOMAIN df.columns :
        /\ df.columns[j] = name
        /\ \A k \in 1..(j - 1) : df.columns[k] # name

\* df[name] as a sequence of cells
Col(df, name) ==
    LET j == ColPos(df, name) IN AsSeq([i \in DOMAIN df.rows |-> df.rows[i][j]])

\* df[names]: the named columns, in the order of names
Select(df, names) ==
    LET pos == AsSeq([j \in DOMAIN names |-> ColPos(df, names[j])])
    IN  [columns |-> names,
         rows |-> AsSeq([i \in DOMAIN df.rows |->
                           AsSeq([j \in DOMAIN names |-> df.rows[i][pos[j]]])])]

\* df[name] = cells: overwrites the column in place, or appends it
SetCol(df, name, cells) ==
    IF HasCol(df, name)
    THEN LET j == ColPos(df, name)
         IN  [df EXCEPT !.rows =
                AsSeq([i \in DOMAIN df.rows |-> [df.rows[i] EXCEPT ![j] = cells[i]]])]
    ELSE [df EXCEPT !.columns = Append(df.columns, name),
                    !.rows = AsSeq([i \in DOMAIN df.rows |-> Append(df.rows[i], cells[i])])]

\* cells is in non-decreasing order (merge_asof's check of its keys)
IsSorted(cells) ==
    \A i \in 1..(Len(cells) - 1) : cells[i][1] <= cells[i + 1][1]

----------------------------------------------------------------------------
(* The tape: sort_index, reset_index *)

\* s with x inserted where a sort puts it: after every smaller key, and after
\* or before the equal keys according to kind
InsertByKey(s, x, kind) ==
    LET k == Cardinality({i \in DOMAIN s :
                 \/ s[i].key < x.key
                 \/ (kind = "stable" /\ s[i].key = x.key)})
    IN  SubSeq(s, 1, k) \o <<x>> \o SubSeq(s, k + 1, Len(s))

RECURSIVE SortByKey(_, _)
SortByKey(s, kind) ==
    IF s = <<>> THEN <<>>
    ELSE InsertByKey(SortByKey(SubSeq(s, 1, Len(s) - 1), kind), s[Len(s)], kind)

\* DataFrame.sort_index(): a new table, rows ascending by the index. The
\* default kind is quicksort, which is not stable: rows with equal keys come
\* out in an order fixed by the build (sort_kind), not by the code.
SortIndexMutAsGiven(tape, kind) == tape
SortIndex(tape, kind) ==
    LET pairs == AsSeq([i \in DOMAIN tape.rows |->
                          [key |-> tape.index[i], row |-> tape.rows[i]]])
        sorted == SortByKey(pairs, kind)
    IN  [index |-> AsSeq([i \in DOMAIN sorted |-> sorted[i].key]),
         columns |-> tape.columns,
         rows |-> AsSeq([i \in DOMAIN sorted |-> sorted[i].row])]

\* DataFrame.reset_index(): the index becomes the first column, 'epoch'
ResetIndex(tape) ==
    [columns |-> <<EPOCH>> \o tape.columns,
     rows |-> AsSeq([i \in DOMAIN tape.rows |-> <<Num(tape.index[i])>> \o tape.rows[i]])]

----------------------------------------------------------------------------
(* pd.merge_asof(left, right, left_on, right_on, suffixes=('_T','_T_Delta'), *)
(* direction='backward'), both keys already checked to be sorted            *)

\* the row of right joined to the key lk: the last one whose key is <= lk
\* (allow_exact_matches=True), 0 when there is none
AsofBackwardMutExact(rkeys, lk) ==
    LET S == {k \in DOMAIN rkeys : rkeys[k][1] < lk}
    IN  IF S = {} THEN 0 ELSE CHOOSE k \in S : \A m \in S : m <= k
AsofBackward(rkeys, lk) ==
    LET S == {k \in DOMAIN rkeys : rkeys[k][1] <= lk}
    IN  IF S = {} THEN 0 ELSE CHOOSE k \in S : \A m \in S : m <= k

MergeAsof(left, right, left_on, right_on) ==
    LET lkeys == Col(left, left_on)
        rkeys == Col(right, right_on)
        lname(c) == IF HasCol(right, c) THEN c \o <<"T">> ELSE c
        rname(c) == IF HasCol(left, c) THEN c \o <<"T", "Delta">> ELSE c
        absent == AsSeq([j \in DOMAIN right.columns |-> NaN])
        joined(i) == LET k == AsofBackward(rkeys, lkeys[i][1])
                     IN  IF k = 0 THEN absent ELSE right.rows[k]
    IN  [columns |-> AsSeq([j \in DOMAIN left.columns |-> lname(left.columns[j])])
                     \o AsSeq([j \in DOMAIN right.columns |-> rname(right.columns[j])]),
         rows |-> AsSeq([i \in DOMAIN left.rows |-> left.rows[i] \o joined(i)])]

----------------------------------------------------------------------------
(* simulate_latency *)

Return(v) == [kind |-> "return", val |-> v, exc |-> ""]
Raise(e) == [kind |-> "raise", val |-> 0, exc |-> e]
NotCalled == [kind |-> "none", val |-> 0, exc |-> ""]

\* line 17: df_arbitrage_hits['execution_epoch'] = df_arbitrage_hits['epoch'] + latency,
\* written into the caller's table
ShiftStageMutCached(hits, latency) ==
    IF HasCol(hits, EXECUTION_EPOCH) THEN hits
    ELSE LET epoch == Col(hits, EPOCH)
         IN  SetCol(hits, EXECUTION_EPOCH,
                    AsSeq([i \in DOMAIN epoch |-> Add(epoch[i], Num(latency))]))
ShiftStage(hits, latency) ==
    LET epoch == Col(hits, EPOCH)
    IN  SetCol(hits, EXECUTION_EPOCH,
               AsSeq([i \in DOMAIN epoch |-> Add(epoch[i], Num(latency))]))

\* line 20
TapeSorted(tape, kind) == ResetIndex(SortIndex(tape, kind))

\* lines 23, 24, 31
BidPriceCols(tape_sorted) == ColsMatching(tape_sorted.columns, PRICE_BID_0)
AskPriceCols(tape_sorted) == ColsMatching(tape_sorted.columns, PRICE_ASK_0)
ColsLookup(tape_sorted) ==
    <<EPOCH>> \o BidPriceCols(tape_sorted) \o AskPriceCols(tape_sorted)
              \o ColsVol(tape_sorted.columns)

\* lines 48-55: the recomputed spread of every joined row, floored at 0
RecomputeStage(merged, bid_price_cols, ask_price_cols) ==
    LET n == DOMAIN merged.rows
        bids == Select(merged, bid_price_cols)
        asks == Select(merged, ask_price_cols)
        d1 == SetCol(merged, GLOBAL_MAX_BID_REAL, AsSeq([i \in n |-> RowMax(bids.rows[i])]))
        d2 == SetCol(d1, GLOBAL_MIN_ASK_REAL, AsSeq([i \in n |-> RowMin(asks.rows[i])]))
        max_bid == Col(d2, GLOBAL_MAX_BID_REAL)
        min_ask == Col(d2, GLOBAL_MIN_ASK_REAL)
        d3 == SetCol(d2, REALIZED_PROFIT_UNIT, AsSeq([i \in n |-> Sub(max_bid[i], min_ask[i])]))
        unit == Col(d3, REALIZED_PROFIT_UNIT)
    IN  SetCol(d3, REALIZED_PROFIT_UNIT, AsSeq([i \in n |-> Clip(unit[i], 0)]))

\* line 63
ProfitStageMutVolCap(df) ==
    LET unit == Col(df, REALIZED_PROFIT_UNIT)
        qty == Col(df, TRADED_QTY)
        vols == Select(df, ColsVol(df.columns))
        cap(i) == LET v == RowMin(vols.rows[i])
                  IN  IF ~IsNaN(v) /\ ~IsNaN(qty[i]) /\ v[1] < qty[i][1] THEN v ELSE qty[i]
    IN  SetCol(df, REALIZED_PROFIT, AsSeq([i \in DOMAIN df.rows |-> Mul(unit[i], cap(i))]))
ProfitStage(df) ==
    LET unit == Col(df, REALIZED_PROFIT_UNIT)
        qty == Col(df, TRADED_QTY)
    IN  SetCol(df, REALIZED_PROFIT, AsSeq([i \in DOMAIN df.rows |-> Mul(unit[i], qty[i])]))

\* line 12
EmptyInputsMutBoth(hits, tape) == Empty(hits) /\ Empty(tape)
EmptyInputs(hits, tape) == Empty(hits) \/ Empty(tape)

\* The whole call: what it returns or raises (ret), the caller's opportunities
\* table after it (hits) and its local df_realized (realized, as far as built).
simulate_latency(hits, tape, latency, kind) ==
    IF EmptyInputs(hits, tape)
    THEN [ret |-> Return(0), hits |-> hits, realized |-> EmptyFrame]
    ELSE IF ~HasCol(hits, EPOCH)
    THEN [ret |-> Raise("KeyError"), hits |-> hits, realized |-> EmptyFrame]
    ELSE
    LET shifted == ShiftStage(hits, latency)
        tape_sorted == TapeSorted(tape, kind)
        bid_price_cols == BidPriceCols(tape_sorted)
        ask_price_cols == AskPriceCols(tape_sorted)
        right == Select(tape_sorted, ColsLookup(tape_sorted))
    IN  IF ~IsSorted(Col(shifted, EXECUTION_EPOCH)) \/ ~IsSorted(Col(right, EPOCH))
        THEN [ret |-> Raise("ValueError"), hits |-> shifted, realized |-> EmptyFrame]
        ELSE
        LET merged == MergeAsof(shifted, right, EXECUTION_EPOCH, EPOCH)
        IN  IF \E j \in DOMAIN bid_price_cols : ~HasCol(merged, bid_price_cols[j])
            THEN [ret |-> Raise("KeyError"), hits |-> shifted, realized |-> merged]
            ELSE IF \E j \in DOMAIN ask_price_cols : ~HasCol(merged, ask_price_cols[j])
            THEN [ret |-> Raise("KeyError"), hits |-> shifted, realized |-> merged]
            ELSE
            LET recomputed == RecomputeStage(merged, bid_price_cols, ask_price_cols)
            IN  IF ~HasCol(recomputed, TRADED_QTY)
                THEN [ret |-> Raise("KeyError"), hits |-> shifted, realized |-> recomputed]
                ELSE
                LET final == ProfitStage(recomputed)
                IN  [ret |-> Return(SumSkipNa(Col(final, REALIZED_PROFIT))),
                     hits |-> shifted, realized |-> final]

----------------------------------------------------------------------------
(* Inputs *)

MaxHits == 2        \* rows of the opportunities table
MaxQuotes == 2      \* rows of the quote table

Latencies == {0, 1}
\* <<epoch, Traded_Qty>>: an early hit of quantity 1, a later hit of quantity 2
HitRows == {<<Num(1), Num(1)>>, <<Num(2), Num(2)>>}
QuoteEpochs == {2, 3}
\* <<bid, ask>> of one venue: a surviving spread, a vanished one, no bid, no ask
QuotePairs == {<<Num(3), Num(2)>>, <<Num(1), Num(2)>>, <<NaN, Num(2)>>, <<Num(3), NaN>>}
\* <<bid A, bid B, ask A, ask B>> of two venues at one instant
VenueRows == {<<Num(1), Num(3), Num(0), Num(2)>>, <<Num(3), Num(1), Num(2), Num(0)>>,
              <<NaN, Num(3), NaN, Num(2)>>,
              <<NaN, NaN, Num(0), Num(2)>>, <<Num(1), Num(3), NaN, NaN>>}
SortKinds == {"stable", "reversed"}

BID_A == <<"price", "bid", "0", "A">>
BID_B == <<"price", "bid", "0", "B">>
ASK_A == <<"price", "ask", "0", "A">>
ASK_B == <<"price", "ask", "0", "B">>
VOL_A == <<"vol", "A">>
BID_1_A == <<"price", "bid", "1", "A">>     \* a level-1 column: not a best bid

SeqsUpTo(S, n) == UNION {[1..k -> S] : k \in 0..n}

\* opportunities tables with the columns epoch, Traded_Qty
HitsTables ==
    {[columns |-> <<EPOCH, TRADED_QTY>>, rows |-> r] : r \in SeqsUpTo(HitRows, MaxHits)}

\* the same tables, also without Traded_Qty and without epoch
HitsSchemas == {<<EPOCH, TRADED_QTY>>, <<EPOCH>>, <<TRADED_QTY>>}
HitsTablesAnySchema == {Select(hits, columns) : hits \in HitsTables, columns \in HitsSchemas}

TapeOf(columns, s) ==
    [index |-> AsSeq([i \in DOMAIN s |-> s[i].key]), columns |-> columns,
     rows |-> AsSeq([i \in DOMAIN s |-> s[i].row])]

\* one-venue quote tables: a bid, an ask and a volume column, in any row order
TapeRows == {[key |-> k, row |-> <<p[1], p[2], Num(1)>>] : k \in QuoteEpochs, p \in QuotePairs}
Tapes == {TapeOf(<<BID_A, ASK_A, VOL_A>>, s) : s \in SeqsUpTo(TapeRows, MaxQuotes)}

\* two-venue quote tables, and quote tables without a best-bid or a best-ask column
VenueTapes ==
    {TapeOf(<<BID_A, BID_B, ASK_A, ASK_B>>, s) :
        s \in SeqsUpTo({[key |-> 2, row |-> v] : v \in VenueRows}, MaxQuotes)}
NoBidTapes ==
    {TapeOf(<<BID_1_A, ASK_A>>, s) :
        s \in SeqsUpTo({[key |-> 2, row |-> <<Num(9), Num(2)>>]}, MaxQuotes)}
NoAskTapes ==
    {TapeOf(<<BID_A, VOL_A>>, s) :
        s \in SeqsUpTo({[key |-> 2, row |-> <<Num(3), Num(1)>>]}, MaxQuotes)}

HasDuplicateKeys(tape) ==
    \E i, j \in DOMAIN tape.index : i # j /\ tape.index[i] = tape.index[j]

InitWith(hits, tape, kind) ==
    /\ df_arbitrage_hits = hits
    /\ df_consolidated_tape = tape
    /\ sort_kind = kind
    /\ hits_orig = hits
    /\ latency_microseconds = 0
    /\ outcome = NotCalled
    /\ df_realized = EmptyFrame
    /\ swept = {}

\* well-formed tables of one venue
Init ==
    \E hits \in HitsTables, tape \in Tapes, kind \in SortKinds :
        /\ kind = "reversed" => HasDuplicateKeys(tape)
        /\ InitWith(hits, tape, kind)

\* tables of any schema: columns missing, several venues
InitSchema ==
    \E hits \in HitsTablesAnySchema, tape \in VenueTapes \cup NoBidTapes \cup NoAskTapes,
       kind \in SortKinds :
        /\ kind = "reversed" => HasDuplicateKeys(tape)
        /\ InitWith(hits, tape, kind)

\* One call of the sweep on the caller's two table objects.
SimulateLatency(latency) ==
    \E r \in {simulate_latency(df_arbitrage_hits, df_consolidated_tape, latency, sort_kind)} :
        /\ df_arbitrage_hits' = r.hits
        /\ outcome' = r.ret
        /\ df_realized' = r.realized
        /\ latency_microseconds' = latency
        /\ swept' = swept \cup {latency}
        /\ UNCHANGED <<df_consolidated_tape, sort_kind, hits_orig>>

Next == \E latency \in Latencies : SimulateLatency(latency)

Spec == Init /\ [][Next]_vars

SpecSchema == InitSchema /\ [][Next]_vars

----------------------------------------------------------------------------
(* What the claims speak of, read off the inputs and the last call *)

Called == swept # {}
Returned == Called /\ outcome.kind = "return"
NonEmptyInputs == Len(hits_orig.rows) > 0 /\ Len(df_consolidated_tape.rows) > 0

Opps == DOMAIN hits_orig.rows
Quotes == DOMAIN df_consolidated_tape.rows
OppEpoch(i) == Col(hits_orig, EPOCH)[i][1]
OppQty(i) == Col(hits_orig, TRADED_QTY)[i][1]
QuoteKey(k) == df_consolidated_tape.index[k]

SetMax(S) == CHOOSE x \in S : \A y \in S : y <= x
SetMin(S) == CHOOSE x \in S : \A y \in S : x <= y

\* the values present in the best-bid (best-ask) columns of snapshot k
BidsOf(tape, k) ==
    {tape.rows[k][j][1] : j \in {c \in DOMAIN tape.columns :
        Contains(PRICE_BID_0, tape.columns[c]) /\ ~IsNaN(tape.rows[k][c])}}
AsksOf(tape, k) ==
    {tape.rows[k][j][1] : j \in {c \in DOMAIN tape.columns :
        Contains(PRICE_ASK_0, tape.columns[c]) /\ ~IsNaN(tape.rows[k][c])}}
Usable(tape, k) == BidsOf(tape, k) # {} /\ AsksOf(tape, k) # {}

\* max(0, best bid - best ask) of snapshot k, 0 when a side is absent
SnapshotUnit(tape, k) ==
    IF ~Usable(tape, k) THEN 0
    ELSE LET spread == SetMax(BidsOf(tape, k)) - SetMin(AsksOf(tape, k))
         IN  IF spread > 0 THEN spread ELSE 0

\* the snapshots at or before the execution instant of opportunity i, and
\* the latest of them
Eligible(i) == {k \in Quotes : QuoteKey(k) <= OppEpoch(i) + latency_microseconds}
Latest(i) == {k \in Eligible(i) : \A m \in Eligible(i) : QuoteKey(m) <= QuoteKey(k)}

\* what a row of a realized table adds to the total
ContributionIn(realized, i) ==
    LET c == Col(realized, REALIZED_PROFIT)[i] IN IF IsNaN(c) THEN 0 ELSE c[1]
Contribution(i) == ContributionIn(df_realized, i)

RECURSIVE SumFirst(_, _)
SumFirst(f, n) == IF n = 0 THEN 0 ELSE f[n] + SumFirst(f, n - 1)

----------------------------------------------------------------------------
\* the row of the quote table that df_realized shows joined to opportunity i
JoinedIs(i, k) ==
    \E looked_up \in {Tail(ColsLookup(ResetIndex(df_consolidated_tape)))} :
        /\ Col(df_realized, EPOCH \o <<"T", "Delta">>)[i] = Num(QuoteKey(k))
        /\ Select(df_realized, looked_up).rows[i]
                = Select(df_consolidated_tape, looked_up).rows[k]
JoinedNone(i) == IsNaN(Col(df_realized, EPOCH \o <<"T", "Delta">>)[i])

\* the two scenarios of the specification, in the model's units (time 1000 is
\* 2 and 1050 is 3, prices 99, 100, 101 are 1, 2, 3, the quantity 10 is 2)
ScenarioHit == hits_orig.rows = <<<<Num(2), Num(2)>>>> /\ latency_microseconds = 1
ScenarioOneQuote ==
    /\ ScenarioHit
    /\ df_consolidated_tape.index = <<2>>
    /\ df_consolidated_tape.rows = <<<<Num(3), Num(2), Num(1)>>>>
ScenarioTwoQuotes ==
    /\ ScenarioHit
    /\ df_consolidated_tape.index = <<2, 3>>
    /\ df_consolidated_tape.rows = <<<<Num(3), Num(2), Num(1)>>, <<Num(1), Num(2), Num(1)>>>>

(* C1: when a call on non-empty tables returns, the total is the sum of the *)
(* opportunities' contributions, and each contribution is                   *)
(* max(0, best bid - best ask) * Traded_Qty of the joined snapshot, which   *)
(* has the largest time key <= epoch + latency: never a later snapshot, nor *)
(* an older one (0 and no snapshot when none is that early). One quote at   *)
(* the detection instant with bid above ask by 1 gives 1 * quantity; a      *)
(* second quote at the execution instant with bid below ask gives 0.        *)
C1_BackwardLookup ==
    (Returned /\ NonEmptyInputs) =>
        /\ outcome.val = SumFirst([i \in Opps |-> Contribution(i)], Len(hits_orig.rows))
        /\ \A i \in Opps :
            IF Eligible(i) = {} THEN JoinedNone(i) /\ Contribution(i) = 0
            ELSE \E k \in Latest(i) :
                    /\ JoinedIs(i, k)
                    /\ Contribution(i) = SnapshotUnit(df_consolidated_tape, k) * OppQty(i)
        /\ ScenarioOneQuote => outcome.val = 2
        /\ ScenarioTwoQuotes => outcome.val = 0

\* a call whose opportunity has an older snapshot with a positive spread and
\* a later one, also in time, where the spread is gone: it adds 0
C1_Witness ==
    /\ Returned
    /\ \E i \in Opps : \E old \in Eligible(i), new \in Latest(i) :
        /\ QuoteKey(old) < QuoteKey(new)
        /\ SnapshotUnit(df_consolidated_tape, old) * OppQty(i) > 0
        /\ Usable(df_consolidated_tape, new)
        /\ Contribution(i) = 0

----------------------------------------------------------------------------
NoData(i) ==
    \/ Eligible(i) = {}
    \/ \A k \in Latest(i) : ~Usable(df_consolidated_tape, k)

Without(hits, i) ==
    [hits EXCEPT !.rows = SubSeq(hits.rows, 1, i - 1) \o SubSeq(hits.rows, i + 1, Len(hits.rows))]

AddsZeroAlone(i) ==
    /\ outcome.kind = "return"
    /\ Contribution(i) = 0
    /\ \E r \in {simulate_latency(Without(hits_orig, i), df_consolidated_tape,
                                  latency_microseconds, sort_kind)} :
        /\ r.ret.kind = "return"
        /\ \A j \in Opps \ {i} :
            Contribution(j) = ContributionIn(r.realized, IF j < i THEN j ELSE j - 1)

(* C2: an opportunity without usable market data at its execution instant  *)
(* (no snapshot that early, or a joined snapshot with no bid or no ask)     *)
(* adds exactly 0: the call returns a number, and every other opportunity   *)
(* adds what it adds when that opportunity is not in the table.             *)
C2_NoDataAddsZero ==
    (Called /\ NonEmptyInputs) => \A i \in Opps : NoData(i) => AddsZeroAlone(i)

\* the same, for opportunities tables given in ascending epoch order
C2_NoDataAddsZeroWhenSorted ==
    (Called /\ NonEmptyInputs /\ IsSorted(Col(hits_orig, EPOCH))) =>
        \A i \in Opps : NoData(i) => AddsZeroAlone(i)

----------------------------------------------------------------------------
(* C3: a call leaves the caller's two tables as they were: same columns,    *)
(* same rows, same order; no execution_epoch column appears.                *)
C3_InputsNotMutated ==
    [][/\ df_arbitrage_hits' = df_arbitrage_hits
       /\ df_consolidated_tape' = df_consolidated_tape]_vars

----------------------------------------------------------------------------
NoBidColumn == ColsMatching(df_consolidated_tape.columns, PRICE_BID_0) = <<>>
NoAskColumn == ColsMatching(df_consolidated_tape.columns, PRICE_ASK_0) = <<>>

(* C4: with both tables non-empty and no best-bid column, or no best-ask    *)
(* column, in the quote table, the call raises: it returns no number.       *)
C4_MissingPriceColumnsRaise ==
    (Called /\ NonEmptyInputs /\ (NoBidColumn \/ NoAskColumn)) => outcome.kind = "raise"

----------------------------------------------------------------------------
(* C5: every call of a sweep returns (or raises) what a first call with the *)
(* same latency does on the tables as first passed.                         *)
C5_SweepIndependent ==
    Called => outcome = simulate_latency(hits_orig, df_consolidated_tape,
                                         latency_microseconds, sort_kind).ret

\* a call made after both latencies were tried, on a table that carries an
\* execution_epoch column written by an earlier call
C5_Witness ==
    /\ swept = Latencies
    /\ Returned /\ outcome.val > 0
    /\ HasCol(df_arbitrage_hits, EXECUTION_EPOCH) /\ ~HasCol(hits_orig, EXECUTION_EPOCH)

----------------------------------------------------------------------------
(* C6: with an opportunities table or a quote table of no rows the call     *)
(* returns 0 for every latency, builds no join and touches no column, also  *)
(* when required columns are missing.                                       *)
C6_EmptyShortCircuit ==
    (Called /\ ~NonEmptyInputs) =>
        /\ outcome = Return(0)
        /\ df_realized = EmptyFrame
        /\ df_arbitrage_hits = hits_orig

\* an empty quote table, opportunities without Traded_Qty
C6_Witness ==
    /\ Called
    /\ Len(df_consolidated_tape.rows) = 0
    /\ Len(hits_orig.rows) > 0 /\ ~HasCol(hits_orig, TRADED_QTY)
    /\ outcome = Return(0)

----------------------------------------------------------------------------
(* C7: with non-negative quantities no realized per-unit profit and no      *)
(* realized profit is below 0 (each is missing or >= 0), so the total is    *)
(* >= 0; a joined snapshot whose best bid is below its best ask adds 0.     *)
C7_NeverNegative ==
    (Returned /\ \A i \in Opps : OppQty(i) >= 0) =>
        /\ outcome.val >= 0
        /\ \A i \in DOMAIN df_realized.rows :
            \E unit \in {Col(df_realized, REALIZED_PROFIT_UNIT)[i]},
               profit \in {Col(df_realized, REALIZED_PROFIT)[i]},
               bid \in {Col(df_realized, GLOBAL_MAX_BID_REAL)[i]},
               ask \in {Col(df_realized, GLOBAL_MIN_ASK_REAL)[i]} :
                /\ IsNaN(unit) \/ unit[1] >= 0
                /\ IsNaN(profit) \/ profit[1] >= 0
                /\ (~IsNaN(bid) /\ ~IsNaN(ask) /\ bid[1] < ask[1]) =>
                        (unit = Num(0) /\ Contribution(i) = 0)

\* a joined snapshot with the best bid below the best ask
C7_Witness ==
    /\ Returned
    /\ \E i \in DOMAIN df_realized.rows :
        /\ Col(df_realized, GLOBAL_MAX_BID_REAL)[i] = Num(1)
        /\ Col(df_realized, GLOBAL_MIN_ASK_REAL)[i] = Num(2)
        /\ Col(df_realized, REALIZED_PROFIT_UNIT)[i] = Num(0)

----------------------------------------------------------------------------
PermuteCols(tape, pi) ==
    [tape EXCEPT !.columns = AsSeq([j \in DOMAIN tape.columns |-> tape.columns[pi[j]]]),
                 !.rows = AsSeq([k \in DOMAIN tape.rows |->
                            AsSeq([j \in DOMAIN tape.columns |-> tape.rows[k][pi[j]]])])]

(* C8: the best bid of a joined snapshot is the largest value present in    *)
(* its bid columns and the best ask the smallest present in its ask         *)
(* columns (missing when none is present); a venue without a value is       *)
(* skipped, and the order of the quote table's columns does not change the  *)
(* result.                                                                  *)
C8_BestAcrossVenues ==
    (Returned /\ NonEmptyInputs) =>
        /\ \A i \in Opps :
            \E bid \in {Col(df_realized, GLOBAL_MAX_BID_REAL)[i]},
               ask \in {Col(df_realized, GLOBAL_MIN_ASK_REAL)[i]} :
                IF Eligible(i) = {} THEN IsNaN(bid) /\ IsNaN(ask)
                ELSE \E k \in Latest(i) :
                        \E bids \in {BidsOf(df_consolidated_tape, k)},
                           asks \in {AsksOf(df_consolidated_tape, k)} :
                            /\ bid = IF bids = {} THEN NaN ELSE Num(SetMax(bids))
                            /\ ask = IF asks = {} THEN NaN ELSE Num(SetMin(asks))
        /\ \A pi \in Permutations(DOMAIN df_consolidated_tape.columns) :
            simulate_latency(hits_orig, PermuteCols(df_consolidated_tape, pi),
                             latency_microseconds, sort_kind).ret = outcome

\* bids 1 and 3, asks 0 and 2: best bid 3 (second column), best ask 0
C8_Witness ==
    /\ Returned
    /\ df_consolidated_tape.columns = <<BID_A, BID_B, ASK_A, ASK_B>>
    /\ \E i \in DOMAIN df_realized.rows :
        /\ Select(df_realized, <<BID_A, BID_B, ASK_A, ASK_B>>).rows[i]
                = <<Num(1), Num(3), Num(0), Num(2)>>
        /\ Col(df_realized, GLOBAL_MAX_BID_REAL)[i] = Num(3)
        /\ Col(df_realized, GLOBAL_MIN_ASK_REAL)[i] = Num(0)

----------------------------------------------------------------------------
DoubleQty(hits, i) ==
    SetCol(hits, TRADED_QTY,
           AsSeq([j \in DOMAIN hits.rows |->
                    IF j = i THEN Mul(Num(2), Col(hits, TRADED_QTY)[j])
                    ELSE Col(hits, TRADED_QTY)[j]]))

UnitOrZero(i) ==
    LET u == Col(df_realized, REALIZED_PROFIT_UNIT)[i] IN IF IsNaN(u) THEN 0 ELSE u[1]

(* C9: doubling the Traded_Qty of one opportunity doubles what it adds to   *)
(* the total and leaves what every other one adds; what it adds is the      *)
(* per-unit profit times its own quantity, whatever the volume quoted.      *)
C9_QuantityScaling ==
    (Returned /\ NonEmptyInputs) =>
        \A i \in Opps :
            /\ Contribution(i) = UnitOrZero(i) * OppQty(i)
            /\ \E r \in {simulate_latency(DoubleQty(hits_orig, i), df_consolidated_tape,
                                          latency_microseconds, sort_kind)} :
                /\ r.ret.kind = "return"
                /\ r.ret.val = outcome.val + Contribution(i)
                /\ \A j \in Opps :
                    ContributionIn(r.realized, j) =
                        IF j = i THEN 2 * Contribution(i) ELSE Contribution(j)

\* a quantity of 2 against a quoted volume of 1, fully counted
C9_Witness ==
    /\ Returned /\ NonEmptyInputs
    /\ \E i \in Opps :
        /\ OppQty(i) = 2
        /\ Col(df_realized, VOL_A)[i] = Num(1)
        /\ UnitOrZero(i) > 0
        /\ Contribution(i) = 2 * UnitOrZero(i)

----------------------------------------------------------------------------
PermuteRows(tape, pi) ==
    [tape EXCEPT !.index = AsSeq([k \in DOMAIN tape.rows |-> tape.index[pi[k]]]),
                 !.rows = AsSeq([k \in DOMAIN tape.rows |-> tape.rows[pi[k]]])]

(* C10: for a quote table with pairwise distinct time keys, every order of  *)
(* its rows gives the same result for the same opportunities and latency.   *)
C10_RowOrderIrrelevant ==
    (Called /\ ~HasDuplicateKeys(df_consolidated_tape)) =>
        \A pi \in Permutations(Quotes) :
            simulate_latency(hits_orig, PermuteRows(df_consolidated_tape, pi),
                             latency_microseconds, sort_kind).ret = outcome

\* a quote table supplied latest snapshot first
C10_Witness ==
    /\ Returned /\ outcome.val > 0
    /\ ~HasDuplicateKeys(df_consolidated_tape)
    /\ \E k \in Quotes : k + 1 \in Quotes /\ QuoteKey(k) > QuoteKey(k + 1)

====
